---- MODULE Spec2Model ----
(***************************************************************************)
(* Model of whatsapp-mcp-server/client.py: the retrying generation call    *)
(* generate_with_retry and the interactive loop of run().                  *)
(*                                                                         *)
(* Strings on which the code performs a conversion (input lines, retry     *)
(* delay hints) and every text stored in a Part are sequences of one-      *)
(* character strings; tool names and status codes are compared only for    *)
(* equality and are TLA+ strings.                                          *)
(***************************************************************************)
EXTENDS Integers, Sequences, FiniteSets, TLC

\* ------------------------------------------------------------------ bounds
MaxLines == 2        \* input lines read in one session
MaxDetails == 2      \* entries of error.details in a rich failure payload
MaxHintLen == 2      \* characters of a retryDelay hint
MaxTools == 2        \* tools listed by the tool server
MaxLiveLines == 1    \* input lines read in a session checked for progress

\* ------------------------------------------------------- program constants
max_retries == 3
fallback_delay == 30

\* ------------------------------------------------------------ str helpers
IsSpace(c) == c \in {" ", "\t"}

RECURSIVE LStrip(_)
LStrip(s) == IF s # << >> /\ IsSpace(Head(s)) THEN LStrip(Tail(s)) ELSE s

RECURSIVE RStrip(_)
RStrip(s) ==
    IF s # << >> /\ IsSpace(s[Len(s)]) THEN RStrip(SubSeq(s, 1, Len(s) - 1)) ELSE s

\* str.strip()
Strip(s) == RStrip(LStrip(s))

LowerChar(c) ==
    CASE c = "E" -> "e"
      [] c = "X" -> "x"
      [] c = "I" -> "i"
      [] c = "T" -> "t"
      [] c = "H" -> "h"
      [] c = "S" -> "s"
      [] OTHER -> c

\* str.lower()
Lower(s) == [i \in 1..Len(s) |-> LowerChar(s[i])]

RECURSIVE LStripS(_)
LStripS(s) == IF s # << >> /\ Head(s) = "s" THEN LStripS(Tail(s)) ELSE s

RECURSIVE RStripS(_)
RStripS(s) ==
    IF s # << >> /\ s[Len(s)] = "s" THEN RStripS(SubSeq(s, 1, Len(s) - 1)) ELSE s

\* str.strip("s"): removes every leading and trailing "s"
StripS(s) == RStripS(LStripS(s))

Digits == {"0", "1", "2", "3", "4", "5", "6", "7", "8", "9"}

DigitVal(c) ==
    CASE c = "0" -> 0 [] c = "1" -> 1 [] c = "2" -> 2 [] c = "3" -> 3
      [] c = "4" -> 4 [] c = "5" -> 5 [] c = "6" -> 6 [] c = "7" -> 7
      [] c = "8" -> 8 [] c = "9" -> 9

\* int(s) succeeds on the hint alphabet used here iff s is a non-empty run
\* of decimal digits (no sign, blank or underscore occurs in HintChars)
IntParses(s) == s # << >> /\ \A i \in 1..Len(s) : s[i] \in Digits

RECURSIVE IntOf(_)
IntOf(s) == IF s = << >> THEN 0
            ELSE 10 * IntOf(SubSeq(s, 1, Len(s) - 1)) + DigitVal(s[Len(s)])

\* ------------------------------------------------------------- data model
\* types.Part: exactly one of text / function_call / function_response set
TextPart(t) == [kind |-> "text", name |-> "", val |-> t]
FunctionCallPart(n, a) == [kind |-> "function_call", name |-> n, val |-> a]
FunctionResponsePart(n, r) == [kind |-> "function_response", name |-> n, val |-> r]

\* types.Content
Content(r, ps) == [role |-> r, parts |-> ps]

ToolNames == {"get_weather", "send_message"}
Args == <<"P">>                \* the arguments mapping of a function call
OkText == <<"o", "k">>
MoreText == <<"h", "i">>
NoResultReturned == <<"N", "o", "n", "e">>   \* "No result returned"

\* candidates[0].content.parts of the responses the backend may produce
Responses ==
    { << >>,
      <<TextPart(OkText)>>,
      <<FunctionCallPart("get_weather", Args)>>,
      <<FunctionCallPart("get_weather", Args), TextPart(OkText)>>,
      <<TextPart(OkText), FunctionCallPart("send_message", Args), TextPart(MoreText)>> }

\* candidates[0].content.parts of the answers to the second request, which
\* carries the function response: a text, or one more function call
FinalResponses ==
    { <<TextPart(OkText)>>,
      <<FunctionCallPart("get_weather", Args)>> }

\* tool_result.content of a call_tool that returns: no content, one
\* TextContent, or one ImageContent (which has no .text attribute)
ToolResults ==
    { << >>,
      <<[type |-> "text", text |-> <<"2", "2", "C">>]>>,
      <<[type |-> "image", text |-> << >>]>> }

\* lines typed at the prompt
Lines ==
    { <<"e", "x", "i", "t">>,
      <<" ", "E", "x", "I", "T", " ">>,
      <<" ", "e", "x", "i", "t", "s">>,
      <<" ">> }

\* ------------------------------------------------------ tool declarations
\* one entry of mcp_tools.tools
Tool(n, d, sch) == [name |-> n, description |-> d, inputSchema |-> sch]

ToolCatalog ==
    { Tool("get_weather", "weather of a city", "city"),
      Tool("send_message", "send a message", "recipient, text") }

\* what session.list_tools() may answer
ToolLists == UNION {[1..n -> ToolCatalog] : n \in 0..MaxTools}

\* the tool list of an interactive session
SessionTools ==
    << Tool("get_weather", "weather of a city", "city"),
       Tool("send_message", "send a message", "recipient, text") >>

\* variant: the declarations are listed last tool first
BuildDeclarationsReversed(ts) ==
    << [function_declarations |->
           [i \in 1..Len(ts) |-> [name |-> ts[Len(ts) + 1 - i].name,
                                  description |-> ts[Len(ts) + 1 - i].description,
                                  parameters |-> ts[Len(ts) + 1 - i].inputSchema]]] >>

\* lines 89-100: one bundle holding one declaration per tool, in order
BuildDeclarations(ts) ==
    << [function_declarations |->
           [i \in 1..Len(ts) |-> [name |-> ts[i].name,
                                  description |-> ts[i].description,
                                  parameters |-> ts[i].inputSchema]]] >>

\* ------------------------------------------------------- failure payloads
RateLimitStatuses == {"RESOURCE_EXHAUSTED", "429 RESOURCE_EXHAUSTED", "Too Many Requests"}
RetryInfoType == "type.googleapis.com/google.rpc.RetryInfo"
DetailTypes == {RetryInfoType, "type.googleapis.com/google.rpc.Help"}

HintChars == {"5", "s", "m"}
HintStrings == UNION {[1..n -> HintChars] : n \in 0..MaxHintLen}

\* value of a detail's "retryDelay" key: absent, a JSON number, or a string
Missing == [t |-> "missing", s |-> << >>]
NotAString == [t |-> "number", s |-> << >>]
Str(s) == [t |-> "str", s |-> s]
HintValues == {Missing, NotAString} \cup {Str(s) : s \in HintStrings}

Detail(ty, h) == [type |-> ty, retryDelay |-> h]
\* a RetryInfo entry with any hint value, or an entry of another type
\* whose retryDelay must not be read
Details ==
    {Detail(RetryInfoType, h) : h \in HintValues}
    \cup {Detail(ty, Str(<<"5", "s">>)) : ty \in DetailTypes \ {RetryInfoType}}
DetailLists == UNION {[1..n -> Details] : n \in 0..MaxDetails}

\* A failure of client.models.generate_content.
\*   cls  "ClientError" (caught at line 46) or "ServerError" (not caught)
\*   body "json" (e.response.json() is a mapping), "unparseable" (it raises)
ClientError(st, ds) == [cls |-> "ClientError", body |-> "json", status |-> st, details |-> ds]
UnparseableError == [cls |-> "ClientError", body |-> "unparseable", status |-> "", details |-> << >>]
ServerError == [cls |-> "ServerError", body |-> "json", status |-> "", details |-> << >>]
NoError == [cls |-> "none", body |-> "json", status |-> "", details |-> << >>]

FiveSeconds == <<Detail(RetryInfoType, Str(<<"5", "s">>))>>

\* failures of the backend in an interactive session
SessionFaults ==
    { ClientError("RESOURCE_EXHAUSTED", FiveSeconds),
      ClientError("429 RESOURCE_EXHAUSTED", << >>),
      ClientError("Too Many Requests", <<Detail(RetryInfoType, Missing)>>),
      ClientError("INVALID_ARGUMENT", FiveSeconds),
      UnparseableError,
      ServerError }

\* structured failure payloads with every detail list within the bounds,
\* under a retried and under a not retried status
RichFaults ==
    {ClientError(st, ds) : st \in {"RESOURCE_EXHAUSTED", "INVALID_ARGUMENT"},
                           ds \in DetailLists}

\* --------------------------------------------------- generate_with_retry
\* detail.get("retryDelay", "30s")
HintText(h) == IF h.t = "missing" THEN <<"3", "0", "s">> ELSE h.s

\* variant: int() applied to the hint without stripping the unit
DelayOfHintNoStrip(h) ==
    IF h.t = "number" THEN fallback_delay
    ELSE IF IntParses(HintText(h)) THEN IntOf(HintText(h))
    ELSE fallback_delay

\* int(detail.get("retryDelay", "30s").strip("s")) inside the try of lines
\* 56-62: a value without .strip, or text int() rejects, raises and
\* leaves retry_delay at its fallback
DelayOfHint(h) ==
    IF h.t = "number" THEN fallback_delay
    ELSE IF IntParses(StripS(HintText(h))) THEN IntOf(StripS(HintText(h)))
    ELSE fallback_delay

\* variant: the advertised delay is never read
RetryDelayFallbackOnly(ds) == fallback_delay

\* the loop over error.details: the first RetryInfo entry decides
RECURSIVE RetryDelay(_)
RetryDelay(ds) ==
    IF ds = << >> THEN fallback_delay
    ELSE IF Head(ds).type = RetryInfoType THEN DelayOfHint(Head(ds).retryDelay)
    ELSE RetryDelay(Tail(ds))

\* variant: every failure that carries a status is retried
IsRateLimitAnyStatus(st) == st # ""

\* status == "RESOURCE_EXHAUSTED" or ... (line 54)
IsRateLimit(st) ==
    st = "RESOURCE_EXHAUSTED" \/ st = "429 RESOURCE_EXHAUSTED" \/ st = "Too Many Requests"

\* variant: off by one, the last attempt sleeps too
ShouldSleepOffByOne(a) == a < max_retries

\* attempt < max_retries - 1 (line 64)
ShouldSleep(a) == a < max_retries - 1

\* what the backend did on one attempt, as seen from outside the client
Outcome(e) ==
    IF e.cls # "ClientError" THEN e.cls
    ELSE IF e.body # "json" THEN e.body
    ELSE e.status

AttemptEvent(res) == [ev |-> "attempt", res |-> res, delay |-> 0]
SleepEvent(d) == [ev |-> "sleep", res |-> "", delay |-> d]

Response(ps) == [none |-> FALSE, parts |-> ps]
NoneResponse == [none |-> TRUE, parts |-> << >>]

VARIABLES
    contents,       \* the conversation list of run()
    pc,             \* position of run(): AwaitingInput, Generating,
                    \* ToolExecuting, FinalGenerating, Exited, Terminated
    inv,            \* generate_with_retry frame: idle, running, sleeping,
                    \* returned, raised
    attempt,        \* loop variable of generate_with_retry
    trace,          \* attempts and sleeps of the current invoke call
    lastErr,        \* e, the failure caught most recently in this call
    raised,         \* the failure that left generate_with_retry
    response,       \* the value generate_with_retry returned
    function_call,  \* the function call being executed
    out,            \* user-facing notices printed since the last prompt
                    \* (debug prints of the part and tool result left out)
    line,           \* the line read at the last prompt
    linesRead,      \* number of lines read
    snapshot,       \* the conversation when the first generation was issued
    step,           \* the step run() took last
    faults,         \* failures the backend can answer with
    mcp_tools,      \* the tool list answered by session.list_tools()
    tools,          \* the declaration bundle built at line 89
    toolsArg,       \* the tools argument of the current invoke call
    callContents,   \* the conversation as it was when invoke was called
    sent,           \* the contents given to the latest generate_content
    tool_result,    \* what call_tool returned for the current line
    lineAttempts,   \* generation attempts made for the current line
    lineSleeps      \* backoff sleeps made for the current line

vars == <<contents, pc, inv, attempt, trace, lastErr, raised, response,
          function_call, out, line, linesRead, snapshot, step, faults,
          mcp_tools, tools, toolsArg, callContents, sent, tool_result,
          lineAttempts, lineSleeps>>

\* what the session is given and never changes after startup
envVars == <<faults, mcp_tools, tools>>

\* the frame of generate_with_retry
frameVars == <<inv, attempt, trace, lastErr, raised, response, toolsArg, callContents, sent>>

NoToolResult == [returned |-> FALSE, content |-> << >>]
ToolResult(c) == [returned |-> TRUE, content |-> c]

NoCall == FunctionCallPart("", << >>)

\* variant: the attempt counter goes on from the retries the line has used
EnterInvokeSharedCounter ==
    /\ inv' = "running"
    /\ attempt' = lineSleeps
    /\ trace' = << >>
    /\ lastErr' = NoError
    /\ raised' = NoError
    /\ response' = NoneResponse
    /\ toolsArg' = tools
    /\ callContents' = contents'
    /\ sent' = << >>

\* entering generate_with_retry: for attempt in range(max_retries)
EnterInvoke ==
    /\ inv' = "running"
    /\ attempt' = 0
    /\ trace' = << >>
    /\ lastErr' = NoError
    /\ raised' = NoError
    /\ response' = NoneResponse
    /\ toolsArg' = tools
    /\ callContents' = contents'
    /\ sent' = << >>

\* leaving the frame once the caller has consumed its result
LeaveInvoke ==
    /\ inv' = "idle"
    /\ attempt' = 0
    /\ trace' = << >>
    /\ lastErr' = NoError
    /\ raised' = NoError
    /\ response' = NoneResponse
    /\ toolsArg' = << >>
    /\ callContents' = << >>
    /\ sent' = << >>

orchestratorVars == <<contents, pc, function_call, out, line, linesRead, snapshot, step,
                      tool_result, envVars>>

\* variant: the request carries the latest turn only
GenerateOkLatestTurn(ps) ==
    /\ inv = "running"
    /\ trace' = Append(trace, AttemptEvent("ok"))
    /\ inv' = "returned"
    /\ response' = Response(ps)
    /\ sent' = <<contents[Len(contents)]>>
    /\ lineAttempts' = lineAttempts + 1
    /\ UNCHANGED <<attempt, lastErr, raised, toolsArg, callContents, lineSleeps>>
    /\ UNCHANGED orchestratorVars

\* lines 37-45: generate_content answers and the response is returned
GenerateOk(ps) ==
    /\ inv = "running"
    /\ trace' = Append(trace, AttemptEvent("ok"))
    /\ inv' = "returned"
    /\ response' = Response(ps)
    /\ sent' = contents
    /\ lineAttempts' = lineAttempts + 1
    /\ UNCHANGED <<attempt, lastErr, raised, toolsArg, callContents, lineSleeps>>
    /\ UNCHANGED orchestratorVars

\* raise e: the failure leaves generate_with_retry
Raise(e) ==
    /\ trace' = Append(trace, AttemptEvent(Outcome(e)))
    /\ inv' = "raised"
    /\ raised' = e
    /\ UNCHANGED lineSleeps

\* lines 64-66: announce the retry and await asyncio.sleep(retry_delay)
Sleep(e) ==
    /\ trace' = trace \o <<AttemptEvent(Outcome(e)), SleepEvent(RetryDelay(e.details))>>
    /\ inv' = "sleeping"
    /\ lineSleeps' = lineSleeps + 1
    /\ UNCHANGED raised

\* lines 46-72: generate_content raises e
GenerateFail(e) ==
    /\ inv = "running"
    /\ e \in faults
    /\ lastErr' = e
    /\ sent' = contents
    /\ lineAttempts' = lineAttempts + 1
    /\ IF e.cls # "ClientError" THEN Raise(e)          \* not caught at line 46
       ELSE IF e.body # "json" THEN Raise(e)           \* lines 47-51
       ELSE IF IsRateLimit(e.status)
            THEN IF ShouldSleep(attempt) THEN Sleep(e) ELSE Raise(e)
            ELSE Raise(e)                              \* lines 70-72
    /\ UNCHANGED <<attempt, response, toolsArg, callContents>>
    /\ UNCHANGED orchestratorVars

\* asyncio.sleep returns and the for loop takes its next iteration; a loop
\* that runs out of iterations falls off the end and returns None
WakeUp ==
    /\ inv = "sleeping"
    /\ attempt' = attempt + 1
    /\ IF attempt + 1 < max_retries
       THEN inv' = "running" /\ UNCHANGED response
       ELSE inv' = "returned" /\ response' = NoneResponse
    /\ UNCHANGED <<trace, lastErr, raised, toolsArg, callContents, sent>>
    /\ UNCHANGED <<lineAttempts, lineSleeps>>
    /\ UNCHANGED orchestratorVars

\* ------------------------------------------------------------------ run()
Notice(k, n, t) == [kind |-> k, name |-> n, text |-> t]
Exiting == Notice("exiting", "", << >>)                   \* "Exiting..."
Assistant(t) == Notice("assistant", "", t)                \* "Assistant: <text>"
ToolRequested(n) == Notice("tool_request", n, << >>)      \* "[Gemini requested tool: ...]"
ToolFailed(n) == Notice("tool_failed", n, << >>)          \* "Assistant: Failed to execute tool: ..."
NoResponse == Notice("no_response", "", << >>)            \* "[No response from Gemini]"

\* p.text is truthy
HasText(p) == p.kind = "text" /\ p.val # << >>

\* variant: only the last part of the response is printed
ShowPartsLastOnly(ps) ==
    IF ps = << >> THEN << >>
    ELSE IF HasText(ps[Len(ps)]) THEN <<Assistant(ps[Len(ps)].val)>>
    ELSE IF ps[Len(ps)].kind = "function_call" THEN <<ToolRequested(ps[Len(ps)].name)>>
    ELSE << >>

\* lines 179-186: what the text branch prints for the parts of a response
RECURSIVE ShowParts(_)
ShowParts(ps) ==
    IF ps = << >> THEN << >>
    ELSE (IF HasText(Head(ps)) THEN <<Assistant(Head(ps).val)>>
          ELSE IF Head(ps).kind = "function_call" THEN <<ToolRequested(Head(ps).name)>>
          ELSE << >>) \o ShowParts(Tail(ps))

ShowResponse(ps) == IF ps # << >> THEN ShowParts(ps) ELSE <<NoResponse>>

\* lines 167-170: what the tool branch prints for the final response
RECURSIVE ShowFinal(_)
ShowFinal(ps) ==
    IF ps = << >> THEN << >>
    ELSE (IF HasText(Head(ps)) THEN <<Assistant(Head(ps).val)>> ELSE << >>)
         \o ShowFinal(Tail(ps))

\* variant: the comparison without .lower()
IsExitCaseSensitive(user_input) == user_input = <<"e", "x", "i", "t">>

\* user_input.lower() == "exit" (line 108)
IsExit(user_input) == Lower(user_input) = <<"e", "x", "i", "t">>

\* variant: the sentinel is stored whatever the tool returned
ResultTextSentinelOnly(content) == NoResultReturned

\* tool_result.content[0].text if tool_result.content else "No result returned"
ResultText(content) == IF content # << >> THEN content[1].text ELSE NoResultReturned

\* the turns appended after call_tool returned (lines 136-158)
ToolTurns(fc, result) ==
    << Content("model", <<fc>>),
       Content("user", <<FunctionResponsePart(fc.name, result)>>),
       Content("model", <<fc>>),
       Content("user", <<FunctionResponsePart(fc.name, result)>>) >>

\* lines 107-118: one line is read; "exit" ends the loop, any other line
\* is appended and the first generation is issued
ReadLine(l) ==
    /\ pc = "AwaitingInput"
    /\ linesRead < MaxLines
    /\ linesRead' = linesRead + 1
    /\ line' = l
    /\ step' = "ReadLine"
    /\ IF IsExit(Strip(l))
       THEN /\ out' = <<Exiting>>
            /\ pc' = "Exited"
            /\ UNCHANGED <<contents, snapshot, frameVars>>
       ELSE /\ out' = << >>
            /\ contents' = Append(contents, Content("user", <<TextPart(Strip(l))>>))
            /\ snapshot' = contents'
            /\ pc' = "Generating"
            /\ EnterInvoke
    /\ tool_result' = NoToolResult
    /\ lineAttempts' = 0
    /\ lineSleeps' = 0
    /\ UNCHANGED <<function_call, envVars>>

\* lines 120-131 and 175-186: the first response is inspected
HandleResponse ==
    /\ pc = "Generating"
    /\ inv = "returned"
    /\ step' = "HandleResponse"
    /\ LeaveInvoke
    /\ IF response.none \/ response.parts = << >>
       THEN \* response.candidates / parts[0] raises outside any try
            /\ pc' = "Terminated"
            /\ lineAttempts' = 0
            /\ lineSleeps' = 0
            /\ UNCHANGED <<contents, out, function_call>>
       ELSE IF response.parts[1].kind = "function_call"
       THEN /\ function_call' = response.parts[1]
            /\ out' = Append(out, ToolRequested(response.parts[1].name))
            /\ pc' = "ToolExecuting"
            /\ UNCHANGED <<contents, lineAttempts, lineSleeps>>
       ELSE /\ contents' = Append(contents, Content("model", response.parts))
            /\ out' = out \o ShowResponse(response.parts)
            /\ pc' = "AwaitingInput"
            /\ lineAttempts' = 0
            /\ lineSleeps' = 0
            /\ UNCHANGED function_call
    /\ UNCHANGED <<line, linesRead, snapshot, tool_result, envVars>>

\* variant: the failure of the first generation is reported and the loop
\* goes on
FirstGenerationRaisedCaught ==
    /\ pc = "Generating"
    /\ inv = "raised"
    /\ step' = "FirstGenerationRaised"
    /\ LeaveInvoke
    /\ pc' = "AwaitingInput"
    /\ lineAttempts' = 0
    /\ lineSleeps' = 0
    /\ UNCHANGED <<contents, out, function_call, line, linesRead, snapshot,
                   tool_result, envVars>>

\* line 118: a failure of the first generation is not caught by run()
FirstGenerationRaised ==
    /\ pc = "Generating"
    /\ inv = "raised"
    /\ step' = "FirstGenerationRaised"
    /\ LeaveInvoke
    /\ pc' = "Terminated"
    /\ lineAttempts' = 0
    /\ lineSleeps' = 0
    /\ UNCHANGED <<contents, out, function_call, line, linesRead, snapshot,
                   tool_result, envVars>>

\* lines 131-162: call_tool returned tool_result with this content
ToolReturn(content) ==
    /\ pc = "ToolExecuting"
    /\ step' = "ToolReturn"
    /\ IF content # << >> /\ content[1].type # "text"
       THEN \* line 136 has appended; .text at line 145 raises, caught at 172
            /\ contents' = Append(contents, Content("model", <<function_call>>))
            /\ out' = Append(out, ToolFailed(function_call.name))
            /\ pc' = "AwaitingInput"
            /\ function_call' = NoCall
            /\ tool_result' = NoToolResult
            /\ lineAttempts' = 0
            /\ lineSleeps' = 0
            /\ UNCHANGED frameVars
       ELSE /\ contents' = contents \o ToolTurns(function_call, ResultText(content))
            /\ pc' = "FinalGenerating"
            /\ EnterInvoke
            /\ tool_result' = ToolResult(content)
            /\ UNCHANGED <<out, function_call, lineAttempts, lineSleeps>>
    /\ UNCHANGED <<line, linesRead, snapshot, envVars>>

\* variant: the failed call is recorded in the conversation
ToolRaiseRecorded ==
    /\ pc = "ToolExecuting"
    /\ step' = "ToolRaise"
    /\ out' = Append(out, ToolFailed(function_call.name))
    /\ contents' = contents \o
          << Content("model", <<function_call>>),
             Content("user", <<FunctionResponsePart(function_call.name, << >>)>>) >>
    /\ pc' = "AwaitingInput"
    /\ function_call' = NoCall
    /\ lineAttempts' = 0
    /\ lineSleeps' = 0
    /\ UNCHANGED <<frameVars, line, linesRead, snapshot, tool_result, envVars>>

\* lines 131, 172-174: call_tool raised
ToolRaise ==
    /\ pc = "ToolExecuting"
    /\ step' = "ToolRaise"
    /\ out' = Append(out, ToolFailed(function_call.name))
    /\ pc' = "AwaitingInput"
    /\ function_call' = NoCall
    /\ lineAttempts' = 0
    /\ lineSleeps' = 0
    /\ UNCHANGED <<contents, frameVars, line, linesRead, snapshot, tool_result, envVars>>

\* variant: a function call that opens the final response is dispatched
HandleFinalDispatching ==
    /\ pc = "FinalGenerating"
    /\ inv = "returned"
    /\ step' = "HandleFinal"
    /\ LeaveInvoke
    /\ IF response.none
       THEN UNCHANGED <<contents, out>>
       ELSE /\ contents' = Append(contents, Content("model", response.parts))
            /\ out' = out \o ShowFinal(response.parts)
    /\ IF ~response.none /\ response.parts # << >>
             /\ response.parts[1].kind = "function_call"
       THEN /\ pc' = "ToolExecuting"
            /\ function_call' = response.parts[1]
            /\ UNCHANGED <<lineAttempts, lineSleeps>>
       ELSE /\ pc' = "AwaitingInput"
            /\ function_call' = NoCall
            /\ lineAttempts' = 0
            /\ lineSleeps' = 0
    /\ tool_result' = NoToolResult
    /\ UNCHANGED <<line, linesRead, snapshot, envVars>>

\* lines 162-170: the second generation returned
HandleFinal ==
    /\ pc = "FinalGenerating"
    /\ inv = "returned"
    /\ step' = "HandleFinal"
    /\ LeaveInvoke
    /\ IF response.none
       THEN UNCHANGED <<contents, out>>
       ELSE /\ contents' = Append(contents, Content("model", response.parts))
            /\ out' = out \o ShowFinal(response.parts)
    /\ pc' = "AwaitingInput"
    /\ function_call' = NoCall
    /\ tool_result' = NoToolResult
    /\ lineAttempts' = 0
    /\ lineSleeps' = 0
    /\ UNCHANGED <<line, linesRead, snapshot, envVars>>

\* variant: the failure of the second generation ends the process
FinalGenerationRaisedFatal ==
    /\ pc = "FinalGenerating"
    /\ inv = "raised"
    /\ step' = "FinalGenerationRaised"
    /\ LeaveInvoke
    /\ pc' = "Terminated"
    /\ function_call' = NoCall
    /\ tool_result' = NoToolResult
    /\ lineAttempts' = 0
    /\ lineSleeps' = 0
    /\ UNCHANGED <<contents, out, line, linesRead, snapshot, envVars>>

\* variant: a failed second generation is issued again
FinalGenerationRaisedReissued ==
    /\ pc = "FinalGenerating"
    /\ inv = "raised"
    /\ step' = "FinalGenerationRaised"
    /\ UNCHANGED <<contents, pc, out, function_call, tool_result, line,
                   linesRead, snapshot, envVars>>
    /\ EnterInvoke
    /\ lineAttempts' = 0
    /\ lineSleeps' = 0

\* variant: the turns of the failed round-trip are taken back
FinalGenerationRaisedRollback ==
    /\ pc = "FinalGenerating"
    /\ inv = "raised"
    /\ step' = "FinalGenerationRaised"
    /\ LeaveInvoke
    /\ out' = Append(out, ToolFailed(function_call.name))
    /\ contents' = snapshot
    /\ pc' = "AwaitingInput"
    /\ function_call' = NoCall
    /\ tool_result' = NoToolResult
    /\ lineAttempts' = 0
    /\ lineSleeps' = 0
    /\ UNCHANGED <<line, linesRead, snapshot, envVars>>

\* lines 162, 172-174: the second generation raised inside the try
FinalGenerationRaised ==
    /\ pc = "FinalGenerating"
    /\ inv = "raised"
    /\ step' = "FinalGenerationRaised"
    /\ LeaveInvoke
    /\ out' = Append(out, ToolFailed(function_call.name))
    /\ pc' = "AwaitingInput"
    /\ function_call' = NoCall
    /\ tool_result' = NoToolResult
    /\ lineAttempts' = 0
    /\ lineSleeps' = 0
    /\ UNCHANGED <<contents, line, linesRead, snapshot, envVars>>

\* lines 85-104: the tool list is fetched, the declaration bundle is built
\* once and the conversation starts empty
Startup ==
    /\ pc = "Starting"
    /\ step' = "Startup"
    /\ tools' = BuildDeclarations(mcp_tools)
    /\ contents' = << >>
    /\ pc' = "AwaitingInput"
    /\ UNCHANGED <<frameVars, function_call, out, line, linesRead, snapshot,
                   tool_result, lineAttempts, lineSleeps, faults, mcp_tools>>

\* ---------------------------------------------------------- specifications
\* line 104: an interactive session starts with an empty conversation
Init ==
    /\ contents = << >>
    /\ pc = "AwaitingInput"
    /\ inv = "idle"
    /\ attempt = 0
    /\ trace = << >>
    /\ lastErr = NoError
    /\ raised = NoError
    /\ response = NoneResponse
    /\ function_call = NoCall
    /\ out = << >>
    /\ line = << >>
    /\ linesRead = 0
    /\ snapshot = << >>
    /\ step = "start"
    /\ faults = SessionFaults
    /\ mcp_tools = SessionTools
    /\ tools = BuildDeclarations(SessionTools)
    /\ toolsArg = << >>
    /\ callContents = << >>
    /\ sent = << >>
    /\ tool_result = NoToolResult
    /\ lineAttempts = 0
    /\ lineSleeps = 0

\* what the backend may answer to the request in flight
Answers == IF pc = "FinalGenerating" THEN FinalResponses ELSE Responses

Next ==
    \/ \E l \in Lines : ReadLine(l)
    \/ \E ps \in Answers : GenerateOk(ps)
    \/ \E e \in faults : GenerateFail(e)
    \/ WakeUp
    \/ HandleResponse
    \/ FirstGenerationRaised
    \/ \E c \in ToolResults : ToolReturn(c)
    \/ ToolRaise
    \/ HandleFinal
    \/ FinalGenerationRaised

Spec == Init /\ [][Next]_vars

\* one call of generate_with_retry against a backend whose failures all
\* carry the same payload, drawn from every payload within the bounds
InitInvoke ==
    /\ contents = <<Content("user", <<TextPart(<<"h", "i">>)>>)>>
    /\ pc = "Generating"
    /\ inv = "running"
    /\ attempt = 0
    /\ trace = << >>
    /\ lastErr = NoError
    /\ raised = NoError
    /\ response = NoneResponse
    /\ function_call = NoCall
    /\ out = << >>
    /\ line = <<"h", "i">>
    /\ linesRead = 1
    /\ snapshot = contents
    /\ step = "ReadLine"
    /\ \E e \in RichFaults : faults = {e}
    /\ mcp_tools = SessionTools
    /\ tools = BuildDeclarations(SessionTools)
    /\ toolsArg = tools
    /\ callContents = contents
    /\ sent = << >>
    /\ tool_result = NoToolResult
    /\ lineAttempts = 0
    /\ lineSleeps = 0

NextInvoke ==
    \/ GenerateOk(<<TextPart(OkText)>>)
    \/ \E e \in faults : GenerateFail(e)
    \/ WakeUp

SpecInvoke == InitInvoke /\ [][NextInvoke]_vars

\* every step but the reading of a line: an awaited backend call, tool call
\* or sleep ends, and run() then goes on by itself
Progress ==
    \/ \E ps \in Answers : GenerateOk(ps)
    \/ \E e \in faults : GenerateFail(e)
    \/ WakeUp
    \/ HandleResponse
    \/ FirstGenerationRaised
    \/ \E c \in ToolResults : ToolReturn(c)
    \/ ToolRaise
    \/ HandleFinal
    \/ FinalGenerationRaised

NextLive ==
    \/ \E l \in Lines : linesRead < MaxLiveLines /\ ReadLine(l)
    \/ Progress

\* the session under the assumption that what is awaited ends
SpecLive == Init /\ [][NextLive]_vars /\ WF_vars(Progress)

\* a session from its start, with any tool list within the bounds and a
\* backend that answers every request
InitTools ==
    /\ contents = << >>
    /\ pc = "Starting"
    /\ inv = "idle"
    /\ attempt = 0
    /\ trace = << >>
    /\ lastErr = NoError
    /\ raised = NoError
    /\ response = NoneResponse
    /\ function_call = NoCall
    /\ out = << >>
    /\ line = << >>
    /\ linesRead = 0
    /\ snapshot = << >>
    /\ step = "start"
    /\ faults = {}
    /\ mcp_tools \in ToolLists
    /\ tools = << >>
    /\ toolsArg = << >>
    /\ callContents = << >>
    /\ sent = << >>
    /\ tool_result = NoToolResult
    /\ lineAttempts = 0
    /\ lineSleeps = 0

NextTools ==
    \/ Startup
    \/ \E l \in Lines : ReadLine(l)
    \/ \E ps \in Answers : GenerateOk(ps)
    \/ HandleResponse
    \/ \E c \in ToolResults : ToolReturn(c)
    \/ ToolRaise
    \/ HandleFinal

SpecTools == InitTools /\ [][NextTools]_vars

\* ============================================================ properties
IsPrefix(s, t) == Len(s) <= Len(t) /\ SubSeq(t, 1, Len(s)) = s

HasKind(t, k) == \E i \in 1..Len(t.parts) : t.parts[i].kind = k
IsUserText(t) == t.role = "user" /\ Len(t.parts) = 1 /\ t.parts[1].kind = "text"
IsModelCall(t) == t.role = "model" /\ Len(t.parts) = 1 /\ t.parts[1].kind = "function_call"
IsUserResponse(t, n) ==
    /\ t.role = "user"
    /\ Len(t.parts) = 1
    /\ t.parts[1].kind = "function_response"
    /\ t.parts[1].name = n

\* the turns of the current user line: its user turn and what followed
Gained == SubSeq(contents, Len(snapshot), Len(contents))

AttemptIdx == {i \in 1..Len(trace) : trace[i].ev = "attempt"}
SleepIdx == {i \in 1..Len(trace) : trace[i].ev = "sleep"}
NumAttempts == Cardinality(AttemptIdx)
NumSleeps == Cardinality(SleepIdx)

RECURSIVE SumDelays(_)
SumDelays(t) == IF t = << >> THEN 0 ELSE Head(t).delay + SumDelays(Tail(t))

\* attempts at odd positions, each sleep right after a failed attempt
Alternates ==
    \A i \in 1..Len(trace) : trace[i].ev = (IF i % 2 = 1 THEN "attempt" ELSE "sleep")

\* C1: after a successful tool round-trip the store gained, for that user
\* line, exactly user-Text, model-FunctionCall, user-FunctionResponse,
\* model-final in this order; when the second generation is issued exactly
\* the FunctionCall turn and the FunctionResponse turn have been appended.
C1_RoundTripTurns ==
    /\ pc = "FinalGenerating" =>
          /\ Len(Gained) = 3
          /\ IsUserText(Gained[1])
          /\ IsModelCall(Gained[2])
          /\ IsUserResponse(Gained[3], Gained[2].parts[1].name)
    /\ step = "HandleFinal" =>
          /\ Len(Gained) = 4
          /\ IsUserText(Gained[1])
          /\ IsModelCall(Gained[2])
          /\ IsUserResponse(Gained[3], Gained[2].parts[1].name)
          /\ Gained[4].role = "model"

\* C2: a conversation handed to a generation call never has two
\* consecutive user turns.
C2_NoConsecutiveUserTurns ==
    inv \in {"running", "sleeping"} =>
        \A i \in 1..(Len(contents) - 1) :
            ~(contents[i].role = "user" /\ contents[i + 1].role = "user")

\* C3: whenever the loop is about to read a line, every turn holding a
\* FunctionCall part is immediately followed by a user turn holding the
\* FunctionResponse part of the same tool.
C3_CallFollowedByResponse ==
    pc = "AwaitingInput" =>
        \A i \in 1..Len(contents) :
            HasKind(contents[i], "function_call") =>
                /\ i < Len(contents)
                /\ contents[i + 1].role = "user"
                /\ \E j \in 1..Len(contents[i].parts), k \in 1..Len(contents[i + 1].parts) :
                      /\ contents[i].parts[j].kind = "function_call"
                      /\ contents[i + 1].parts[k].kind = "function_response"
                      /\ contents[i + 1].parts[k].name = contents[i].parts[j].name

AllRateLimited ==
    /\ trace # << >>
    /\ \A i \in AttemptIdx : trace[i].res \in RateLimitStatuses

\* C4: when every attempt of an invoke call fails with a rate-limit
\* status, the call makes exactly max_retries attempts, sleeps once before
\* each retry and not after the last attempt, and raises the last failure.
C4_ExhaustedRetries ==
    AllRateLimited =>
        /\ Alternates
        /\ NumAttempts <= max_retries
        /\ inv \in {"running", "sleeping", "raised"}
        /\ inv \in {"running", "sleeping"} =>
              /\ trace[Len(trace)].ev = "sleep"
              /\ NumAttempts < max_retries
        /\ inv = "raised" =>
              /\ NumAttempts = max_retries
              /\ NumSleeps = max_retries - 1
              /\ trace[Len(trace)].ev = "attempt"
              /\ raised = lastErr
              /\ Outcome(raised) = trace[Len(trace)].res

C4_Witness ==
    /\ inv = "raised"
    /\ AllRateLimited
    /\ NumAttempts = 3
    /\ NumSleeps = 2
    /\ {trace[i].res : i \in AttemptIdx} = RateLimitStatuses

\* C5: an attempt that fails with anything but a recognized rate-limit
\* failure ends the invoke call at once: no sleep and no attempt follows
\* it, the failure is raised, and on the first attempt it is the only one.
C5_NonRetryableRaisesAtOnce ==
    \A i \in AttemptIdx :
        trace[i].res \notin RateLimitStatuses \cup {"ok"} =>
            /\ i = Len(trace)
            /\ inv = "raised"
            /\ raised = lastErr
            /\ Outcome(raised) = trace[i].res
            /\ NumSleeps = NumAttempts - 1
            /\ (i = 1 => NumAttempts = 1 /\ NumSleeps = 0)

C5_Witness ==
    /\ inv = "raised"
    /\ NumAttempts = 2
    /\ trace[1].res \in RateLimitStatuses
    /\ trace[Len(trace)].res = "unparseable"

\* the first RetryInfo entry of a detail list, << >> when there is none
RECURSIVE FirstRetryInfo(_)
FirstRetryInfo(ds) ==
    IF ds = << >> THEN << >>
    ELSE IF Head(ds).type = RetryInfoType THEN <<Head(ds)>>
    ELSE FirstRetryInfo(Tail(ds))

\* "Ns": one or more decimal digits followed by exactly one "s"
WellFormedHint(h) ==
    /\ h.t = "str"
    /\ Len(h.s) >= 2
    /\ h.s[Len(h.s)] = "s"
    /\ \A i \in 1..(Len(h.s) - 1) : h.s[i] \in Digits

\* the delay the claim announces for a failure payload
ClaimedDelay(e) ==
    LET ri == FirstRetryInfo(e.details) IN
    IF ri # << >> /\ WellFormedHint(ri[1].retryDelay)
    THEN IntOf(SubSeq(ri[1].retryDelay.s, 1, Len(ri[1].retryDelay.s) - 1))
    ELSE 30

\* text of the shape s..s d..d s..s with at least one digit d
DigitsBetweenS(t) ==
    \E a \in 1..Len(t), b \in 1..Len(t) :
        /\ a <= b
        /\ \A i \in 1..Len(t) : IF i < a \/ i > b THEN t[i] = "s" ELSE t[i] \in Digits

CoreDigits(t) == SelectSeq(t, LAMBDA c : c \in Digits)

\* the delay of the amended claim
AmendedDelay(e) ==
    LET ri == FirstRetryInfo(e.details) IN
    IF ri = << >> THEN 30
    ELSE IF ri[1].retryDelay.t = "missing" THEN 30
    ELSE IF ri[1].retryDelay.t = "str" /\ DigitsBetweenS(ri[1].retryDelay.s)
    THEN IntOf(CoreDigits(ri[1].retryDelay.s))
    ELSE 30

RateLimitedBy(e) == e.cls = "ClientError" /\ e.body = "json" /\ e.status \in RateLimitStatuses

\* C6 as stated: every sleep lasts the N of a well-formed "Ns" hint of the
\* failure's RetryInfo detail and 30 seconds for any other hint, and a
\* hint never makes the invoke call fail.
C6_DelayAsStated ==
    \A e \in faults :
        /\ \A i \in SleepIdx : trace[i].delay = ClaimedDelay(e)
        /\ (RateLimitedBy(e) /\ NumAttempts \in 1..(max_retries - 1)) => inv # "raised"

\* C6 amended: every sleep lasts the integer that remains of the first
\* RetryInfo detail's retryDelay text once all leading and trailing "s" are
\* removed, when that remainder is a decimal integer, and 30 seconds in
\* every other case (no RetryInfo detail, no retryDelay, not a string, not
\* an integer); a hint never makes the invoke call fail.
C6_DelayFromHint ==
    \A e \in faults :
        /\ \A i \in SleepIdx : trace[i].delay = AmendedDelay(e)
        /\ (RateLimitedBy(e) /\ NumAttempts \in 1..(max_retries - 1)) =>
              /\ inv \in {"sleeping", "running", "returned"}
              /\ NumSleeps >= NumAttempts - 1

C6_Witness ==
    /\ inv = "sleeping"
    /\ \E e \in faults :
          /\ Len(e.details) = 2
          /\ e.details[1].type # RetryInfoType
          /\ e.details[2] = Detail(RetryInfoType, Str(<<"5", "5">>))
    /\ trace[Len(trace)] = SleepEvent(55)

\* C7: when the first k attempts fail with a rate-limit status and attempt
\* k+1 succeeds, the invoke call returns that response after k+1 attempts
\* and k sleeps, nothing follows the success, and two failures advertising
\* retryDelay "5s" make a total sleep of 10 seconds over 3 attempts.
C7_SuccessAfterRetries ==
    /\ \A i \in AttemptIdx : trace[i].res = "ok" => i = Len(trace) /\ inv = "returned"
    /\ inv = "returned" =>
          /\ Alternates
          /\ trace[Len(trace)] = AttemptEvent("ok")
          /\ \A i \in AttemptIdx \ {Len(trace)} : trace[i].res \in RateLimitStatuses
          /\ NumAttempts = NumSleeps + 1
          /\ NumSleeps = attempt
          /\ NumSleeps < max_retries
          /\ response = Response(<<TextPart(OkText)>>)
          /\ \A e \in faults :
                (NumSleeps = 2 /\ FirstRetryInfo(e.details) = FiveSeconds) =>
                    SumDelays(trace) = 10

C7_Witness ==
    /\ inv = "returned"
    /\ NumAttempts = 3
    /\ NumSleeps = 2
    /\ \E e \in faults : e.details = FiveSeconds
    /\ SumDelays(trace) = 10

\* C8: every step leaves the previous store as a prefix of the new store.
C8_AppendOnly == [][IsPrefix(contents, contents')]_vars

C8_Witness ==
    /\ step = "FinalGenerationRaised"
    /\ linesRead = 2
    /\ Len(contents) = 10

\* C9: when call_tool raises, a failure notice naming the requested tool
\* is shown, the store is exactly what it was when the first generation
\* was issued, the process goes on and the loop is back at its prompt.
C9_ToolFailure ==
    step = "ToolRaise" =>
        /\ pc = "AwaitingInput"
        /\ inv = "idle"
        /\ contents = snapshot
        /\ IsUserText(contents[Len(contents)])
        /\ Len(out) = 2
        /\ out[1].kind = "tool_request"
        /\ out[1].name \in ToolNames
        /\ out[2] = ToolFailed(out[1].name)

C9_Witness ==
    /\ step = "ToolRaise"
    /\ linesRead = 2
    /\ Len(contents) = 7

\* the line is "exit" in any letter case with blanks around it
IsExitLine(l) ==
    \E i \in 1..Len(l) :
        /\ i + 3 <= Len(l)
        /\ \A k \in 1..Len(l) : (k < i \/ k > i + 3) => IsSpace(l[k])
        /\ l[i] \in {"e", "E"}
        /\ l[i + 1] \in {"x", "X"}
        /\ l[i + 2] \in {"i", "I"}
        /\ l[i + 3] \in {"t", "T"}

\* the line without its leading and trailing blanks
Trimmed(l) ==
    LET keep == {k \in 1..Len(l) : ~IsSpace(l[k])} IN
    IF keep = {} THEN << >>
    ELSE SubSeq(l, CHOOSE a \in keep : \A k \in keep : a <= k,
                   CHOOSE b \in keep : \A k \in keep : k <= b)

\* C10: reading "exit" (trimmed, any letter case) ends the loop with the
\* store unchanged and no generation or tool call; any other line is
\* appended as a user turn and a generation call is issued.
C10_ExitOrUtterance ==
    [][pc = "AwaitingInput" /\ pc' # "AwaitingInput" =>
          IF IsExitLine(line')
          THEN /\ pc' = "Exited"
               /\ contents' = contents
               /\ inv' = "idle"
               /\ trace' = << >>
          ELSE /\ contents' = Append(contents, Content("user", <<TextPart(Trimmed(line'))>>))
               /\ pc' = "Generating"
               /\ inv' = "running"
               /\ trace' = << >>]_vars

C10_Witness ==
    /\ pc = "Exited"
    /\ line = <<" ", "E", "x", "I", "T", " ">>
    /\ Len(contents) = 6
    /\ out = <<Exiting>>

\* the texts of the Text parts of a response, in order
TextsOf(ps) ==
    LET T == SelectSeq(ps, LAMBDA p : p.kind = "text")
    IN  [i \in 1..Len(T) |-> T[i].val]

\* the texts displayed as the assistant's, in order
Spoken(o) ==
    LET T == SelectSeq(o, LAMBDA n : n.kind = "assistant")
    IN  [i \in 1..Len(T) |-> T[i].text]

TextFirst ==
    /\ pc = "Generating"
    /\ inv = "returned"
    /\ ~response.none
    /\ response.parts # << >>
    /\ response.parts[1].kind = "text"

GivesResponse(c, n, r) ==
    \E i \in (Len(snapshot) + 1)..Len(c) :
        /\ c[i].role = "user"
        /\ \E k \in 1..Len(c[i].parts) :
              c[i].parts[k] = FunctionResponsePart(n, r)

\* C12: after call_tool returned, the conversation given to the second
\* generation holds a user FunctionResponse part named as the requested tool
\* whose result is the text of the first content element of the tool
\* result, or "No result returned" when the tool returned no content.
C12_FunctionResponseGiven ==
    (pc = "FinalGenerating" /\ trace # << >>) =>
        /\ tool_result.returned
        /\ IF tool_result.content = << >>
           THEN GivesResponse(sent, function_call.name, NoResultReturned)
           ELSE GivesResponse(sent, function_call.name, tool_result.content[1].text)

\* the second generation was given the text the tool returned
C12_Witness ==
    /\ pc = "FinalGenerating"
    /\ inv = "returned"
    /\ function_call.name = "get_weather"
    /\ tool_result.content = <<[type |-> "text", text |-> <<"2", "2", "C">>]>>
    /\ GivesResponse(sent, "get_weather", <<"2", "2", "C">>)

\* the declaration of tool t
Declares(d, t) ==
    /\ d.name = t.name
    /\ d.description = t.description
    /\ d.parameters = t.inputSchema

\* bundle b holds one declaration per tool of ts, in the order of ts
DeclaresAll(b, ts) ==
    /\ Len(b) = 1
    /\ Len(b[1].function_declarations) = Len(ts)
    /\ \A i \in 1..Len(ts) : Declares(b[1].function_declarations[i], ts[i])

\* C13: the bundle built at session start holds one declaration per tool,
\* in the tools' order, with the tool's name, description and input schema;
\* building it again from the same tool list gives the same bundle; once
\* built it never changes and it is the tools argument of every invoke call.
C13_DeclarationsBuiltOnce ==
    /\ [](pc # "Starting" =>
            /\ DeclaresAll(tools, mcp_tools)
            /\ BuildDeclarations(mcp_tools) = tools
            /\ inv # "idle" => toolsArg = tools)
    /\ [][pc # "Starting" => tools' = tools /\ mcp_tools' = mcp_tools]_vars

\* the second invoke call of a session that lists two different tools
C13_Witness ==
    /\ pc = "FinalGenerating"
    /\ inv = "returned"
    /\ Len(mcp_tools) = 2
    /\ mcp_tools[1].name = "send_message"
    /\ mcp_tools[2].name = "get_weather"
    /\ toolsArg[1].function_declarations[1].name = "send_message"
    /\ toolsArg[1].function_declarations[2].parameters = "city"

\* C14: a failure of the second generation, by exhausted retries or by a
\* failure that is not retried, is caught: the failure notice is displayed,
\* the process goes on and the loop is back at its prompt.
C14_FinalFailureCaught ==
    [][(pc = "FinalGenerating" /\ inv = "raised") =>
          /\ pc' = "AwaitingInput"
          /\ inv' = "idle"
          /\ out' = Append(out, ToolFailed(function_call.name))]_vars

\* the second line of a session is read after the second generation of the
\* first line failed: the store ends with the function response of the first
\* line and the text of the second
C14_Witness ==
    /\ step = "ReadLine"
    /\ linesRead = 2
    /\ pc = "Generating"
    /\ Len(contents) = 6
    /\ contents[5].role = "user"
    /\ HasKind(contents[5], "function_response")
    /\ IsUserText(contents[6])

\* C15: a failure of the first generation of a line is not caught: the
\* process terminates, and a terminated process never reads a line again.
C15_FirstFailureFatal ==
    [][/\ (pc = "Generating" /\ inv = "raised") =>
             (pc' = "Terminated" /\ contents' = contents /\ out' = out)
       /\ pc = "Terminated" => pc' = "Terminated"]_vars

\* the process ended on the failure of the first generation of its second
\* line
C15_Witness ==
    /\ pc = "Terminated"
    /\ step = "FirstGenerationRaised"
    /\ linesRead = 2
    /\ IsUserText(contents[Len(contents)])

\* C16: call_tool is issued only on the first generation's response, when
\* its first part is a function call, and for that call; a generation is
\* only started for a tool call by a line just read, so a line has at most
\* one tool call. A function call in a later part of a text-first response
\* or in the response of the second generation is not dispatched.
C16_DispatchFirstPartOnly ==
    [][/\ (pc' = "ToolExecuting" /\ pc # "ToolExecuting") =>
             /\ pc = "Generating"
             /\ inv = "returned"
             /\ ~response.none
             /\ response.parts # << >>
             /\ response.parts[1].kind = "function_call"
             /\ function_call' = response.parts[1]
       /\ (pc' = "Generating" /\ pc # "Generating") =>
             (pc = "AwaitingInput" /\ linesRead' = linesRead + 1)
       /\ pc = "ToolExecuting" => pc' \in {"FinalGenerating", "AwaitingInput"}
       /\ pc = "FinalGenerating" => pc' \in {"FinalGenerating", "AwaitingInput"}
       /\ TextFirst => pc' = "AwaitingInput"]_vars

\* the second generation answered with a function call, which was stored
\* and not dispatched
C16_Witness ==
    /\ step = "HandleFinal"
    /\ pc = "AwaitingInput"
    /\ contents[Len(contents)] = Content("model", <<FunctionCallPart("get_weather", Args)>>)
    /\ contents[Len(contents) - 1].role = "user"
    /\ HasKind(contents[Len(contents) - 1], "function_response")

\* C17: while an invoke call is open or its result is not yet consumed, the
\* store is the one the call was entered with, and every attempt made so
\* far, the latest included, was given that whole store.
C17_WholeStoreEveryAttempt ==
    inv # "idle" =>
        /\ contents = callContents
        /\ trace # << >> => sent = callContents
        /\ IsPrefix(snapshot, callContents)

\* the third attempt of a second generation, after two sleeps, was given
\* the five turns the store had when invoke was called, and then raised
C17_Witness ==
    /\ pc = "FinalGenerating"
    /\ inv = "raised"
    /\ NumAttempts = 3
    /\ NumSleeps = 2
    /\ Len(callContents) = 5
    /\ sent = callContents
    /\ contents = callContents

\* C18: when the first generation's response has a candidate whose content
\* has no parts, that model turn is appended, the "[No response from
\* Gemini]" notice is displayed and the loop is back at its prompt; the
\* process does not terminate.
C18_EmptyResponseHandled ==
    [][(/\ pc = "Generating"
        /\ inv = "returned"
        /\ ~response.none
        /\ response.parts = << >>) =>
          /\ contents' = Append(contents, Content("model", << >>))
          /\ out' = Append(out, NoResponse)
          /\ pc' = "AwaitingInput"]_vars

\* C19: every invoke call starts its attempt counter at 0 and counts its
\* own retries only, so a second generation that is rate limited throughout
\* makes max_retries attempts whatever the first generation used; one line
\* causes at most 2 * max_retries attempts and 2 * (max_retries - 1) sleeps.
C19_BudgetPerCall ==
    /\ lineAttempts <= 2 * max_retries
    /\ lineSleeps <= 2 * (max_retries - 1)
    /\ (inv = "running" /\ trace = << >>) => attempt = 0
    /\ inv \in {"running", "raised"} => attempt = NumSleeps
    /\ inv = "sleeping" => attempt = NumSleeps - 1
    /\ (pc = "FinalGenerating" /\ inv = "raised" /\ AllRateLimited) =>
          /\ NumAttempts = max_retries
          /\ NumSleeps = max_retries - 1
    /\ pc = "Generating" =>
          (lineAttempts = NumAttempts /\ lineSleeps = NumSleeps)
    /\ pc = "FinalGenerating" =>
          (lineAttempts >= NumAttempts /\ lineSleeps >= NumSleeps)

\* both generations of one line used their whole budget: the first
\* succeeded at its last attempt, the second was rate limited throughout
C19_Witness ==
    /\ pc = "FinalGenerating"
    /\ inv = "raised"
    /\ AllRateLimited
    /\ NumAttempts = max_retries
    /\ lineAttempts = 2 * max_retries
    /\ lineSleeps = 2 * (max_retries - 1)

\* the moves of the orchestrator: the chain of the state machine, with the
\* return to the prompt after a failed tool call and the two ways out
Moves ==
    { <<"AwaitingInput", "Generating">>,
      <<"Generating", "AwaitingInput">>,
      <<"Generating", "ToolExecuting">>,
      <<"ToolExecuting", "FinalGenerating">>,
      <<"FinalGenerating", "AwaitingInput">>,
      <<"ToolExecuting", "AwaitingInput">>,
      <<"Generating", "Terminated">>,
      <<"AwaitingInput", "Exited">> }

Busy == pc \in {"Generating", "ToolExecuting", "FinalGenerating"}

\* C20: the orchestrator only moves along the chain of its state machine,
\* and when every awaited call and sleep ends, a line that is being handled
\* eventually leads back to the prompt or to the end of the process.
C20_LineSettles ==
    /\ [][pc' # pc => <<pc, pc'>> \in Moves]_vars
    /\ Busy ~> (pc \in {"AwaitingInput", "Terminated"})

\* back at the prompt after a line that went through both generations
C20_Witness ==
    /\ pc = "AwaitingInput"
    /\ step = "HandleFinal"
    /\ linesRead = 1
    /\ Len(Gained) = 6

====
